---------------------------- MODULE Spec2Model ----------------------------
(***************************************************************************)
(* Model of the sales dashboard (src/index.tsx, src/types.ts): the value   *)
(* coercions cleanString / parseNum, the row normalizer normalizeData, the *)
(* App component's state (data, loading, error, filters, pivot settings,   *)
(* the localStorage snapshot, the load in flight) and its derived views    *)
(* filteredData, stats, pivotTable and the pivot row totals.               *)
(*                                                                         *)
(* Representation.                                                         *)
(*  - A JavaScript string is a sequence of characters; a character is a    *)
(*    one-character TLA+ string.  The module text is ASCII, so a Cyrillic  *)
(*    character is written as a token starting with "cy_" (cy_k and cy_g   *)
(*    are the two letters of the Cyrillic unit label for kilograms) and    *)
(*    the rouble sign is "rub".  Cyrillic property names of the raw row    *)
(*    are transliterated the same way (see the K_ definitions).            *)
(*  - A JavaScript number is an exact rational <<n, d>> in lowest terms    *)
(*    with d > 0; NaN is <<0, 0>>.  Every number of the model is a short   *)
(*    decimal or a quotient of two of them.                                *)
(*  - A raw JSON value is a record [t, n, s]: its type tag, its number and *)
(*    its string (the one that does not apply holds a default).            *)
(***************************************************************************)
EXTENDS Integers, Sequences, FiniteSets, TLC

VARIABLES
    data,          \* useState<NormalizedRow[]>          index.tsx:106
    loading,       \* useState(false)                    index.tsx:107
    error,         \* useState<string | null>            index.tsx:108
    filters,       \* useState<Filters>                  index.tsx:109-115
    pivotRow,      \* useState('category_name')          index.tsx:118
    pivotCol,      \* useState('month')                  index.tsx:119
    pivotVal,      \* useState('sum_revenue')            index.tsx:120
    localStorage,  \* the item 'cached_report_rows'      index.tsx:137,140,148,269
    pc,            \* position of the component: before the mount effect,
                   \* idle, or inside loadData awaiting fetch (index.tsx:128)
    rawInput,      \* the raw rows last handed to normalizeData
    lastOp         \* the step of mount / loadData / handleClear /
                   \* normalizeData that ran last

vars == <<data, loading, error, filters, pivotRow, pivotCol, pivotVal,
          localStorage, pc, rawInput, lastOp>>

(***************************************************************************)
(* Numbers                                                                 *)
(***************************************************************************)
Abs(i) == IF i < 0 THEN -i ELSE i

RECURSIVE GCD(_, _)
GCD(a, b) == IF b = 0 THEN a ELSE GCD(b, a % b)

\* The rational n/d (d > 0) in lowest terms.
Frac(n, d) == LET g == GCD(Abs(n), d) IN <<n \div g, d \div g>>

Num(i) == <<i, 1>>
Zero == <<0, 1>>
NaN == <<0, 0>>
isNaN(q) == q[2] = 0

NumAdd(a, b) == Frac(a[1] * b[2] + b[1] * a[2], a[2] * b[2])
NumSub(a, b) == Frac(a[1] * b[2] - b[1] * a[2], a[2] * b[2])
\* a / b for b > 0 (every division of the source is guarded by b > 0).
NumDiv(a, b) == Frac(a[1] * b[2], a[2] * b[1])
NumLess(a, b) == a[1] * b[2] < b[1] * a[2]
NumMul(a, b) == Frac(a[1] * b[1], a[2] * b[2])
NumPos(a) == a[1] > 0
NumLeq(a, b) == a[1] * b[2] <= b[1] * a[2]
NumAbs(a) == <<Abs(a[1]), a[2]>>
NumSign(a) == IF a[1] > 0 THEN 1 ELSE IF a[1] < 0 THEN -1 ELSE 0

RECURSIVE Pow10(_)
Pow10(k) == IF k = 0 THEN 1 ELSE 10 * Pow10(k - 1)

(***************************************************************************)
(* Characters and strings                                                  *)
(***************************************************************************)
Digits == <<"0", "1", "2", "3", "4", "5", "6", "7", "8", "9">>
DigitSet == {Digits[i] : i \in 1..10}
DigitVal(c) == (CHOOSE i \in 1..10 : Digits[i] = c) - 1

\* The characters the regular expression class \s matches.
Whitespace == {" ", "\n", "\r", "\t"}
\* The characters /[\n\r]/ matches.
LineBreaks == {"\n", "\r"}

\* String.prototype.toLowerCase on one character.
LowerChar(c) ==
    CASE c = "K" -> "k"
      [] c = "G" -> "g"
      [] c = "A" -> "a"
      [] c = "B" -> "b"
      [] c = "N" -> "n"
      [] c = "O" -> "o"
      [] c = "P" -> "p"
      [] c = "cy_K" -> "cy_k"
      [] c = "cy_G" -> "cy_g"
      [] OTHER -> c

toLowerCase(s) == [i \in 1..Len(s) |-> LowerChar(s[i])]

\* s.replace(/[...]/g, ''): s without the characters of the set cs.
RECURSIVE RemoveChars(_, _)
RemoveChars(s, cs) ==
    IF s = <<>> THEN <<>>
    ELSE IF Head(s) \in cs THEN RemoveChars(Tail(s), cs)
         ELSE <<Head(s)>> \o RemoveChars(Tail(s), cs)

\* s.replace(/[^...]/g, ''): s with only the characters of the set cs.
RECURSIVE KeepChars(_, _)
KeepChars(s, cs) ==
    IF s = <<>> THEN <<>>
    ELSE IF Head(s) \in cs THEN <<Head(s)>> \o KeepChars(Tail(s), cs)
         ELSE KeepChars(Tail(s), cs)

\* s.replace(a, b) with a string pattern: only the first occurrence.
RECURSIVE ReplaceFirst(_, _, _)
ReplaceFirst(s, a, b) ==
    IF s = <<>> THEN <<>>
    ELSE IF Head(s) = a THEN <<b>> \o Tail(s)
         ELSE <<Head(s)>> \o ReplaceFirst(Tail(s), a, b)

RECURSIVE TrimLeft(_)
TrimLeft(s) ==
    IF s # <<>> /\ Head(s) \in Whitespace THEN TrimLeft(Tail(s)) ELSE s

RECURSIVE TrimRight(_)
TrimRight(s) ==
    IF s # <<>> /\ s[Len(s)] \in Whitespace
    THEN TrimRight(SubSeq(s, 1, Len(s) - 1)) ELSE s

\* String.prototype.trim
trim(s) == TrimRight(TrimLeft(s))

\* String.prototype.includes
includes(s, sub) ==
    \E i \in 1..(Len(s) - Len(sub) + 1) : SubSeq(s, i, i + Len(sub) - 1) = sub

\* Number of consecutive decimal digits of s from position i on.
RECURSIVE DigitRun(_, _)
DigitRun(s, i) ==
    IF i <= Len(s) /\ s[i] \in DigitSet THEN 1 + DigitRun(s, i + 1) ELSE 0

\* The value of the k decimal digits of s from position i on.
RECURSIVE DigitsValue(_, _, _)
DigitsValue(s, i, k) ==
    IF k = 0 THEN 0
    ELSE 10 * DigitsValue(s, i, k - 1) + DigitVal(s[i + k - 1])

\* The longest prefix of s that is a decimal literal (StrDecimalLiteral
\* without exponent: the model's alphabet has no "e", "+" or "x"):
\* [used |-> its length, 0 when there is none, val |-> its value].
DecimalPrefix(s) ==
    LET neg   == s # <<>> /\ s[1] = "-"
        i0    == IF neg THEN 2 ELSE 1
        ni    == DigitRun(s, i0)
        dot   == i0 + ni <= Len(s) /\ s[i0 + ni] = "."
        nf    == IF dot THEN DigitRun(s, i0 + ni + 1) ELSE 0
        mag   == Frac(DigitsValue(s, i0, ni) * Pow10(nf)
                        + DigitsValue(s, i0 + ni + 1, nf), Pow10(nf))
        used  == (i0 - 1) + ni + (IF dot /\ (ni > 0 \/ nf > 0) THEN 1 + nf ELSE 0)
    IN  IF ni = 0 /\ nf = 0
        THEN [used |-> 0, val |-> NaN]
        ELSE [used |-> used, val |-> IF neg THEN <<-mag[1], mag[2]>> ELSE mag]

\* The global parseFloat on a string without leading whitespace.
parseFloat(s) == DecimalPrefix(TrimLeft(s)).val

\* Number(s) on a string: the whole trimmed string must be a literal, and
\* the empty string is 0.
Number(s) ==
    LET t == trim(s)
        p == DecimalPrefix(t)
    IN  IF t = <<>> THEN Zero
        ELSE IF p.used = Len(t) THEN p.val ELSE NaN

\* The decimal digits of the natural number n.
RECURSIVE NatToString(_)
NatToString(n) ==
    IF n < 10 THEN <<Digits[n + 1]>>
    ELSE NatToString(n \div 10) \o <<Digits[(n % 10) + 1]>>

\* The digits after the decimal point of r/d (0 <= r < d, d divides a
\* power of ten).
RECURSIVE FractionDigits(_, _)
FractionDigits(r, d) ==
    IF r = 0 THEN <<>>
    ELSE <<Digits[((10 * r) \div d) + 1]>> \o FractionDigits((10 * r) % d, d)

\* String(q) for a number q (Number::toString, decimal notation).
NumToString(q) ==
    LET m == Abs(q[1])
        ip == NatToString(m \div q[2])
        fp == FractionDigits(m % q[2], q[2])
    IN  IF isNaN(q) THEN <<"N", "a", "N">>
        ELSE (IF q[1] < 0 THEN <<"-">> ELSE <<>>) \o ip
             \o (IF fp = <<>> THEN <<>> ELSE <<".">> \o fp)

(***************************************************************************)
(* Raw JSON values and raw rows                                            *)
(***************************************************************************)
Undefined == [t |-> "undefined", n |-> Zero, s |-> <<>>]
Null == [t |-> "null", n |-> Zero, s |-> <<>>]
NumV(q) == [t |-> "number", n |-> q, s |-> <<>>]
StrV(str) == [t |-> "string", n |-> Zero, s |-> str]
ObjV(obj) == [t |-> "object", n |-> Zero, s |-> <<>>, o |-> obj]

\* JavaScript truthiness (ToBoolean).
Truthy(v) ==
    CASE v.t = "number" -> ~isNaN(v.n) /\ v.n # Zero
      [] v.t = "string" -> v.s # <<>>
      [] v.t = "object" -> TRUE
      [] OTHER -> FALSE

\* a || b
Or(a, b) == IF Truthy(a) THEN a ELSE b

\* String(v)
ToStr(v) ==
    CASE v.t = "string" -> v.s
      [] v.t = "number" -> NumToString(v.n)
      [] v.t = "null" -> <<"n", "u", "l", "l">>
      [] v.t = "undefined" -> <<"u", "n", "d", "e", "f", "i", "n", "e", "d">>
      [] OTHER -> <<"[", "o", "b", "j", "e", "c", "t", " ",
                    "O", "b", "j", "e", "c", "t", "]">>

\* The property names of a raw row.  The Cyrillic names of RawReportRow
\* (types.ts:2-22) and of normalizeData are transliterated.
K_revenue == "Vyruchka, rub"
K_checks == "Cheki, sht."
K_pieces == "Shtuki"
K_weight == "Ves, kg"
K_date == "Data"
K_store == "Magazin"
K_category == "Kategoriya tovara"
K_unit == "Sht. v kg"
K_week == "Nomer nedeli"
K_month == "Mesyats"
K_quarter == "Kvartal"
K_year == "God"

EmptyRow == [k \in {} |-> Undefined]

\* row[k]: a property read; an absent property is undefined.
Get(row, k) == IF k \in DOMAIN row THEN row[k] ELSE Undefined

(***************************************************************************)
(* Value coercion                                  index.tsx:15-31         *)
(***************************************************************************)
cleanString(val) ==
    IF val.t \in {"null", "undefined"} THEN <<>>
    ELSE trim(RemoveChars(ToStr(val), LineBreaks))

NumericChars == DigitSet \cup {".", "-"}

parseNum(val) ==
    IF val.t = "number" THEN val.n
    ELSE IF ~Truthy(val) THEN Zero
    ELSE LET cleaned ==
                 KeepChars(
                     ReplaceFirst(
                         RemoveChars(RemoveChars(ToStr(val), LineBreaks),
                                     Whitespace),
                         ",", "."),
                     NumericChars)
             parsed == parseFloat(cleaned)
         IN  IF isNaN(parsed) THEN Zero ELSE parsed

(***************************************************************************)
(* Row normalizer                                  index.tsx:44-87         *)
(***************************************************************************)
\* The literals of lines 57 and 58 (the Russian words for "unknown" and
\* "other"), transliterated.
UnknownStore == <<"N", "e", "i", "z", "v", "e", "s", "t", "n", "o">>
OtherCategory == <<"P", "r", "o", "c", "h", "e", "e">>

Str_kg == <<"k", "g">>
Str_cy_kg == <<"cy_k", "cy_g">>
Str_pcs == <<"p", "c", "s">>

DefaultYear == 2025

\* const row = item.json ? item.json : item          index.tsx:47
Unwrap(item) ==
    LET j == Get(item, "json")
    IN  IF Truthy(j) THEN (IF j.t = "object" THEN j.o ELSE EmptyRow) ELSE item

\* Mutant of GuardedRatio: the guard tests the denominator against zero only.
GuardedRatioNonZero(num, den) ==
    IF den = Zero THEN Zero
    ELSE IF NumPos(den) THEN NumDiv(num, den)
    ELSE NumDiv(<<-num[1], num[2]>>, <<-den[1], den[2]>>)

\* checks > 0 ? revenue / checks : 0                 index.tsx:81-84
GuardedRatio(num, den) == IF NumPos(den) THEN NumDiv(num, den) ELSE Zero

\* const unitType = ...                              index.tsx:61-63
UnitTypeOf(row) ==
    LET rawUnit == cleanString(Or(Get(row, "unit_raw"), Get(row, K_unit)))
        unitTypeClean == toLowerCase(cleanString(Get(row, "unit_type")))
    IN  IF includes(unitTypeClean, Str_kg)
           \/ includes(unitTypeClean, Str_cy_kg)
           \/ includes(toLowerCase(rawUnit), Str_cy_kg)
        THEN Str_kg ELSE Str_pcs

StoreOf(row) ==
    cleanString(Or(Or(Get(row, "store_name"), Get(row, K_store)),
                   StrV(UnknownStore)))

CategoryOf(row) ==
    cleanString(Or(Or(Get(row, "category_name"), Get(row, K_category)),
                   StrV(OtherCategory)))

\* `row-${idx}`
RowId(idx) == <<"r", "o", "w", "-">> \o NatToString(idx)

\* The body of raw.map((item, idx) => ...); idx counts from 0.
normalizeRow(item, idx) ==
    LET row == Unwrap(item)
        revenue == parseNum(Or(Or(Get(row, "revenue_rub"), Get(row, K_revenue)),
                               Get(row, "revenue_rub_raw")))
        checks == parseNum(Or(Get(row, "checks"), Get(row, K_checks)))
        pieces == parseNum(Or(Or(Get(row, "pieces"), Get(row, K_pieces)),
                              Get(row, "peaces")))
        weight == parseNum(Or(Get(row, "weight_kg"), Get(row, K_weight)))
        dateStr == cleanString(Or(Get(row, "date"), Get(row, K_date)))
        rawUnit == cleanString(Or(Get(row, "unit_raw"), Get(row, K_unit)))
        id0 == cleanString(Get(row, "id"))
        year0 == parseNum(Get(row, "year"))
    IN  [ id |-> IF id0 # <<>> THEN id0 ELSE RowId(idx),
          date |-> dateStr,
          store_name |-> StoreOf(row),
          category_name |-> CategoryOf(row),
          unit_raw |-> rawUnit,
          unit_type |-> UnitTypeOf(row),
          pieces_per_kg |-> parseNum(Get(row, "pieces_per_kg")),
          weight_kg |-> weight,
          revenue_rub |-> revenue,
          checks |-> checks,
          pieces |-> pieces,
          week |-> parseNum(Get(row, "week")),
          month |-> parseNum(Get(row, "month")),
          quarter |-> parseNum(Get(row, "quarter")),
          year |-> IF Truthy(NumV(year0)) THEN year0 ELSE Num(DefaultYear),
          atv |-> GuardedRatio(revenue, checks),
          upt |-> GuardedRatio(pieces, checks),
          avg_price_per_kg |-> GuardedRatio(revenue, weight),
          avg_price_per_piece |-> GuardedRatio(revenue, pieces) ]

normalizeData(raw) == [i \in 1..Len(raw) |-> normalizeRow(raw[i], i - 1)]

(***************************************************************************)
(* String comparison                                                       *)
(***************************************************************************)
\* The characters of the model in UTF-16 code unit order.
CodeUnitOrder ==
    <<"\t", "\n", "\r", " ", ",", "-", ".",
      "0", "1", "2", "3", "4", "5", "6", "7", "8", "9",
      "A", "B", "G", "K", "N", "O", "P", "[", "]",
      "a", "b", "c", "d", "e", "f", "g", "h", "i", "j", "k", "l", "n", "o",
      "p", "r", "s", "t", "u", "v", "w", "z",
      "cy_G", "cy_K", "cy_g", "cy_k", "cy_t", "cy_sh", "rub">>

CodeUnit(c) == CHOOSE i \in 1..Len(CodeUnitOrder) : CodeUnitOrder[i] = c

\* a < b on strings: lexicographic on code units, a proper prefix first.
RECURSIVE StrLess(_, _)
StrLess(a, b) ==
    IF b = <<>> THEN FALSE
    ELSE IF a = <<>> THEN TRUE
    ELSE IF Head(a) = Head(b) THEN StrLess(Tail(a), Tail(b))
    ELSE CodeUnit(Head(a)) < CodeUnit(Head(b))

\* The collation order of the characters (primary weights): white space,
\* punctuation, currency, digits, Latin letters, Cyrillic letters; the two
\* cases of a letter share a primary weight.
CollationOrder ==
    <<"\t", "\n", "\r", " ", "-", ",", ".", "[", "]", "rub",
      "0", "1", "2", "3", "4", "5", "6", "7", "8", "9",
      "a", "b", "c", "d", "e", "f", "g", "h", "i", "j", "k", "l", "n", "o",
      "p", "r", "s", "t", "u", "v", "w", "z",
      "cy_g", "cy_k", "cy_t", "cy_sh">>

Primary(c) ==
    CHOOSE i \in 1..Len(CollationOrder) : CollationOrder[i] = LowerChar(c)

IsUpper(c) == c \in {"A", "B", "G", "K", "N", "O", "P", "cy_G", "cy_K"}

RECURSIVE PrimaryCompare(_, _)
PrimaryCompare(a, b) ==
    IF a = <<>> /\ b = <<>> THEN 0
    ELSE IF a = <<>> THEN -1
    ELSE IF b = <<>> THEN 1
    ELSE IF Primary(Head(a)) = Primary(Head(b))
         THEN PrimaryCompare(Tail(a), Tail(b))
    ELSE IF Primary(Head(a)) < Primary(Head(b)) THEN -1 ELSE 1

\* Strings of equal primary weights: the first case difference decides,
\* lower case first.
RECURSIVE CaseCompare(_, _)
CaseCompare(a, b) ==
    IF a = <<>> THEN 0
    ELSE IF IsUpper(Head(a)) = IsUpper(Head(b))
         THEN CaseCompare(Tail(a), Tail(b))
    ELSE IF IsUpper(Head(b)) THEN -1 ELSE 1

\* a.localeCompare(b): -1, 0 or 1.
localeCompare(a, b) ==
    LET p == PrimaryCompare(a, b)
    IN  IF p # 0 THEN p ELSE CaseCompare(a, b)

\* Array.prototype.includes
ArrayIncludes(arr, x) == \E i \in 1..Len(arr) : arr[i] = x

(***************************************************************************)
(* Filter engine: filteredData                     index.tsx:157-166       *)
(***************************************************************************)
EmptyFilters ==
    [dateFrom |-> <<>>, dateTo |-> <<>>, stores |-> <<>>,
     categories |-> <<>>, unitTypes |-> <<>>]

\* Mutant of FilterKeeps: the upper date bound is exclusive.
FilterKeepsExclusiveTo(d, f) ==
    IF f.dateFrom # <<>> /\ StrLess(d.date, f.dateFrom) THEN FALSE
    ELSE IF f.dateTo # <<>> /\ ~StrLess(d.date, f.dateTo) THEN FALSE
    ELSE IF Len(f.stores) # 0 /\ ~ArrayIncludes(f.stores, d.store_name) THEN FALSE
    ELSE IF Len(f.categories) # 0 /\ ~ArrayIncludes(f.categories, d.category_name)
         THEN FALSE
    ELSE IF Len(f.unitTypes) # 0 /\ ~ArrayIncludes(f.unitTypes, d.unit_type)
         THEN FALSE
    ELSE TRUE

\* The callback of data.filter: TRUE when the row is kept.
FilterKeeps(d, f) ==
    IF f.dateFrom # <<>> /\ StrLess(d.date, f.dateFrom) THEN FALSE
    ELSE IF f.dateTo # <<>> /\ StrLess(f.dateTo, d.date) THEN FALSE
    ELSE IF Len(f.stores) # 0 /\ ~ArrayIncludes(f.stores, d.store_name) THEN FALSE
    ELSE IF Len(f.categories) # 0 /\ ~ArrayIncludes(f.categories, d.category_name)
         THEN FALSE
    ELSE IF Len(f.unitTypes) # 0 /\ ~ArrayIncludes(f.unitTypes, d.unit_type)
         THEN FALSE
    ELSE TRUE

\* rows.filter(d => ...)
RECURSIVE FilterRows(_, _)
FilterRows(rows, f) ==
    IF rows = <<>> THEN <<>>
    ELSE IF FilterKeeps(Head(rows), f)
         THEN <<Head(rows)>> \o FilterRows(Tail(rows), f)
         ELSE FilterRows(Tail(rows), f)

filteredData == FilterRows(data, filters)

(***************************************************************************)
(* Number formatting                               index.tsx:33-40, 183    *)
(* A formatted number is modelled by the number its digits denote: the     *)
(* value rounded to the formatter's fraction digits, ties away from zero.  *)
(***************************************************************************)
RoundTo(q, digits) ==
    LET p == Pow10(digits)
        m == (2 * Abs(q[1]) * p + q[2]) \div (2 * q[2])
    IN  Frac(NumSign(q) * m, p)

formatCurrency(val) == RoundTo(val, 0)
formatCompact(val) == RoundTo(val, 0)
formatWeight(val) == RoundTo(val, 2)
toFixed2(val) == RoundTo(val, 2)

(***************************************************************************)
(* KPI aggregator: stats                           index.tsx:169-185       *)
(***************************************************************************)
\* filteredData.reduce(..., { rev: 0, chk: 0, pcs: 0, wgt: 0 })
RECURSIVE StatsReduce(_, _)
StatsReduce(rows, acc) ==
    IF rows = <<>> THEN acc
    ELSE LET curr == Head(rows)
         IN  StatsReduce(Tail(rows),
                 [rev |-> NumAdd(acc.rev, curr.revenue_rub),
                  chk |-> NumAdd(acc.chk, curr.checks),
                  pcs |-> NumAdd(acc.pcs, curr.pieces),
                  wgt |-> NumAdd(acc.wgt, curr.weight_kg)])

StatsTotal(rows) ==
    StatsReduce(rows, [rev |-> Zero, chk |-> Zero, pcs |-> Zero, wgt |-> Zero])

RECURSIVE SeqSum(_)
SeqSum(seq) == IF seq = <<>> THEN Zero ELSE NumAdd(Head(seq), SeqSum(Tail(seq)))

\* Mutant of AtvTotal: the mean of the rows' own atv.
AtvTotalMeanOfRows(rows) ==
    IF rows = <<>> THEN Zero
    ELSE NumDiv(SeqSum([i \in 1..Len(rows) |-> rows[i].atv]), Num(Len(rows)))

\* The arguments of the two ratio formatters       index.tsx:182-183
AtvTotal(rows) ==
    LET total == StatsTotal(rows)
    IN  IF NumPos(total.chk) THEN NumDiv(total.rev, total.chk) ELSE Zero

UptTotal(rows) ==
    LET total == StatsTotal(rows)
    IN  IF NumPos(total.chk) THEN NumDiv(total.pcs, total.chk) ELSE Zero

Stats(rows) ==
    LET total == StatsTotal(rows)
    IN  [revenue |-> formatCurrency(total.rev),
         checks |-> formatCompact(total.chk),
         pieces |-> formatCompact(total.pcs),
         weight |-> formatWeight(total.wgt),
         atv |-> formatCurrency(AtvTotal(rows)),
         upt |-> toFixed2(UptTotal(rows))]

stats == Stats(filteredData)

(***************************************************************************)
(* Pivot engine: pivotTable                        index.tsx:188-227       *)
(***************************************************************************)
StringDims == {"category_name", "store_name", "unit_type"}
\* The options of the two dimension selects        index.tsx:488-491, 501-504
RowDims == {"category_name", "store_name", "year", "month"}
ColDims == {"month", "store_name", "unit_type", "quarter"}
SumMeasures == {"sum_revenue", "sum_checks", "sum_pieces", "sum_weight"}
RatioMeasures == {"calc_atv", "calc_upt"}
Measures == SumMeasures \cup RatioMeasures

\* String(d[dim])
DimString(d, dim) ==
    IF dim \in StringDims THEN d[dim] ELSE NumToString(d[dim])

Range(seq) == {seq[i] : i \in 1..Len(seq)}

\* Array.from(new Set(seq)): the distinct elements in order of first
\* occurrence.
RECURSIVE Distinct(_)
Distinct(seq) ==
    IF seq = <<>> THEN <<>>
    ELSE LET front == Distinct(SubSeq(seq, 1, Len(seq) - 1))
             x == seq[Len(seq)]
         IN  IF x \in Range(front) THEN front ELSE Append(front, x)

DimKeys(rows, dim) == Distinct([i \in 1..Len(rows) |-> DimString(rows[i], dim)])

\* The strings of S in ascending code unit order: the result of the default
\* Array.prototype.sort on distinct strings.
RECURSIVE SortStrings(_)
SortStrings(S) ==
    IF S = {} THEN <<>>
    ELSE LET least == CHOOSE x \in S : \A y \in S \ {x} : StrLess(x, y)
         IN  <<least>> \o SortStrings(S \ {least})

RowKeys(rows, dim) == SortStrings(Range(DimKeys(rows, dim)))

\* The comparator of colKeys' sort                 index.tsx:190-193
colCompare(a, b) ==
    IF ~isNaN(Number(a)) /\ ~isNaN(Number(b))
    THEN NumSign(NumSub(Number(a), Number(b)))
    ELSE localeCompare(a, b)

\* A consistent comparator on S, as Array.prototype.sort requires it.
ConsistentOn(S) ==
    /\ \A a \in S : colCompare(a, a) = 0
    /\ \A a, b \in S : colCompare(a, b) = -colCompare(b, a)
    /\ \A a, b, c \in S :
          /\ (colCompare(a, b) = 0 /\ colCompare(b, c) = 0) => colCompare(a, c) = 0
          /\ (colCompare(a, b) < 0 /\ colCompare(b, c) < 0) => colCompare(a, c) < 0
          /\ (colCompare(a, b) = 0 /\ colCompare(b, c) < 0) => colCompare(a, c) < 0
          /\ (colCompare(a, b) < 0 /\ colCompare(b, c) = 0) => colCompare(a, c) < 0

Perms(S) ==
    {p \in [1..Cardinality(S) -> S] : \A i, j \in DOMAIN p : i # j => p[i] # p[j]}

IndexOf(seq, x) == CHOOSE i \in 1..Len(seq) : seq[i] = x

\* The results keys.sort(colCompare) can have.  With a consistent comparator
\* the sort is stable and its result unique; with an inconsistent one the
\* order is implementation-defined (ECMAScript, Array.prototype.sort).
SortOutcomes(keys) ==
    LET S == Range(keys)
    IN  IF ConsistentOn(S)
        THEN {p \in Perms(S) :
                 \A i, j \in DOMAIN p : i < j =>
                     \/ colCompare(p[i], p[j]) < 0
                     \/ /\ colCompare(p[i], p[j]) = 0
                        /\ IndexOf(keys, p[i]) < IndexOf(keys, p[j])}
        ELSE Perms(S)

ColKeysOutcomes(rows, dim) == SortOutcomes(DimKeys(rows, dim))

ZeroAux == [rev |-> Zero, chk |-> Zero, pcs |-> Zero]

\* Mutant of PivotStep: a sum measure assigns the row's value to the cell
\* instead of adding it.
PivotStepOverwriting(acc, d, rowDim, colDim, measure) ==
    LET r == DimString(d, rowDim)
        c == DimString(d, colDim)
        old == acc.matrixAux[r][c]
        aux == [rev |-> NumAdd(old.rev, d.revenue_rub),
                chk |-> NumAdd(old.chk, d.checks),
                pcs |-> NumAdd(old.pcs, d.pieces)]
        val == CASE measure = "sum_revenue" -> d.revenue_rub
                 [] measure = "sum_checks" -> d.checks
                 [] measure = "sum_pieces" -> d.pieces
                 [] measure = "sum_weight" -> d.weight_kg
                 [] measure = "calc_atv" ->
                        IF NumPos(aux.chk) THEN NumDiv(aux.rev, aux.chk) ELSE Zero
                 [] OTHER ->
                        IF NumPos(aux.chk) THEN NumDiv(aux.pcs, aux.chk) ELSE Zero
    IN  [matrix |-> [acc.matrix EXCEPT ![r][c] = val],
         matrixAux |-> [acc.matrixAux EXCEPT ![r][c] = aux]]

\* Mutant of PivotStep: under a ratio measure the cell gets the ratio of the
\* row at hand instead of the ratio of the cell's sums.
PivotStepOwnRatio(acc, d, rowDim, colDim, measure) ==
    LET r == DimString(d, rowDim)
        c == DimString(d, colDim)
        old == acc.matrixAux[r][c]
        aux == [rev |-> NumAdd(old.rev, d.revenue_rub),
                chk |-> NumAdd(old.chk, d.checks),
                pcs |-> NumAdd(old.pcs, d.pieces)]
        cell == acc.matrix[r][c]
        val == CASE measure = "sum_revenue" -> NumAdd(cell, d.revenue_rub)
                 [] measure = "sum_checks" -> NumAdd(cell, d.checks)
                 [] measure = "sum_pieces" -> NumAdd(cell, d.pieces)
                 [] measure = "sum_weight" -> NumAdd(cell, d.weight_kg)
                 [] measure = "calc_atv" -> d.atv
                 [] OTHER -> d.upt
    IN  [matrix |-> [acc.matrix EXCEPT ![r][c] = val],
         matrixAux |-> [acc.matrixAux EXCEPT ![r][c] = aux]]

\* One round of filteredData.forEach               index.tsx:208-224
PivotStep(acc, d, rowDim, colDim, measure) ==
    LET r == DimString(d, rowDim)
        c == DimString(d, colDim)
        old == acc.matrixAux[r][c]
        aux == [rev |-> NumAdd(old.rev, d.revenue_rub),
                chk |-> NumAdd(old.chk, d.checks),
                pcs |-> NumAdd(old.pcs, d.pieces)]
        cell == acc.matrix[r][c]
        val == CASE measure = "sum_revenue" -> NumAdd(cell, d.revenue_rub)
                 [] measure = "sum_checks" -> NumAdd(cell, d.checks)
                 [] measure = "sum_pieces" -> NumAdd(cell, d.pieces)
                 [] measure = "sum_weight" -> NumAdd(cell, d.weight_kg)
                 [] measure = "calc_atv" ->
                        IF NumPos(aux.chk) THEN NumDiv(aux.rev, aux.chk) ELSE Zero
                 [] measure = "calc_upt" ->
                        IF NumPos(aux.chk) THEN NumDiv(aux.pcs, aux.chk) ELSE Zero
                 [] OTHER -> cell
    IN  [matrix |-> [acc.matrix EXCEPT ![r][c] = val],
         matrixAux |-> [acc.matrixAux EXCEPT ![r][c] = aux]]

RECURSIVE PivotLoop(_, _, _, _, _)
PivotLoop(acc, rows, rowDim, colDim, measure) ==
    IF rows = <<>> THEN acc
    ELSE PivotLoop(PivotStep(acc, Head(rows), rowDim, colDim, measure),
                   Tail(rows), rowDim, colDim, measure)

\* The memoized pivot.  The list colKeys is one of ColKeysOutcomes; the
\* matrices are indexed by key and do not depend on its order.
PivotTable(rows, rowDim, colDim, measure) ==
    LET R == Range(DimKeys(rows, rowDim))
        C == Range(DimKeys(rows, colDim))
        built == PivotLoop([matrix |-> [r \in R |-> [c \in C |-> Zero]],
                            matrixAux |-> [r \in R |-> [c \in C |-> ZeroAux]]],
                           rows, rowDim, colDim, measure)
    IN  [rowKeys |-> RowKeys(rows, rowDim),
         colKeySet |-> C,
         matrix |-> built.matrix,
         matrixAux |-> built.matrixAux]

pivotTable == PivotTable(filteredData, pivotRow, pivotCol, pivotVal)

(***************************************************************************)
(* Pivot row totals (rendering)                    index.tsx:541-583       *)
(***************************************************************************)
\* The accumulators of one table row after the loop over colKeys; exact
\* sums do not depend on the order of colKeys, a sorted list stands for it.
RowAccumulators(pt, r, measure) ==
    LET cols == SortStrings(pt.colKeySet)
        n == Len(cols)
    IN  [rowTotal |-> IF measure \in SumMeasures
                      THEN SeqSum([i \in 1..n |-> pt.matrix[r][cols[i]]])
                      ELSE Zero,
         rowRev |-> SeqSum([i \in 1..n |-> pt.matrixAux[r][cols[i]].rev]),
         rowChk |-> SeqSum([i \in 1..n |-> pt.matrixAux[r][cols[i]].chk]),
         rowPcs |-> SeqSum([i \in 1..n |-> pt.matrixAux[r][cols[i]].pcs])]

\* Mutant of FinalTotal: every measure totals the row's cell values.
FinalTotalSummingCells(pt, r, measure) ==
    LET cols == SortStrings(pt.colKeySet)
    IN  SeqSum([i \in 1..Len(cols) |-> pt.matrix[r][cols[i]]])

\* finalTotal                                      index.tsx:574-576
FinalTotal(pt, r, measure) ==
    LET a == RowAccumulators(pt, r, measure)
    IN  CASE measure = "calc_atv" ->
                 IF NumPos(a.rowChk) THEN NumDiv(a.rowRev, a.rowChk) ELSE Zero
          [] measure = "calc_upt" ->
                 IF NumPos(a.rowChk) THEN NumDiv(a.rowPcs, a.rowChk) ELSE Zero
          [] OTHER -> a.rowTotal

\* The number shown in the total column            index.tsx:578
ShownTotal(pt, r, measure) ==
    IF measure \in {"sum_revenue", "calc_atv"}
    THEN formatCurrency(FinalTotal(pt, r, measure))
    ELSE formatCompact(FinalTotal(pt, r, measure))

(***************************************************************************)
(* Charts: chartData                                index.tsx:230-249      *)
(***************************************************************************)
\* A property name that is an array index: Object.entries lists these
\* names first, in ascending numeric order, and the other names after them
\* in order of creation (OrdinaryOwnPropertyKeys).
IsIndexKey(s) ==
    /\ s # <<>>
    /\ \A i \in 1..Len(s) : s[i] \in DigitSet
    /\ (s[1] # "0" \/ Len(s) = 1)

\* map[key] = (map[key] || 0) + d.revenue_rub for every row, on
\* [names |-> the property names in order of creation, value |-> the map]
\*                                                  index.tsx:234-237
RECURSIVE GroupLoop(_, _, _)
GroupLoop(map, rows, field) ==
    IF rows = <<>> THEN map
    ELSE LET d == Head(rows)
             key == d[field]
             old == IF key \in DOMAIN map.value /\ ~isNaN(map.value[key])
                    THEN map.value[key] ELSE Zero
             sum == NumAdd(old, d.revenue_rub)
         IN  GroupLoop(
                 [names |-> IF key \in DOMAIN map.value THEN map.names
                            ELSE Append(map.names, key),
                  value |-> [k \in DOMAIN map.value \cup {key} |->
                                IF k = key THEN sum ELSE map.value[k]]],
                 Tail(rows), field)

EmptyMap == [names |-> <<>>, value |-> <<>>]

\* The array index names of S in ascending numeric order.
RECURSIVE SortIndexKeys(_)
SortIndexKeys(S) ==
    IF S = {} THEN <<>>
    ELSE LET least == CHOOSE x \in S :
                          \A y \in S \ {x} : NumLess(Number(x), Number(y))
         IN  <<least>> \o SortIndexKeys(S \ {least})

\* Object.entries(map).map(([name, value]) => ({ name, value }))
ObjectEntries(map) ==
    LET idx == {k \in DOMAIN map.value : IsIndexKey(k)}
        first == SortIndexKeys(idx)
        rest == SelectSeq(map.names, LAMBDA k : ~IsIndexKey(k))
        names == first \o rest
    IN  [i \in 1..Len(names) |-> [name |-> names[i], value |-> map.value[names[i]]]]

\* The two comparators of chartData: a.name.localeCompare(b.name) for the
\* time series, b.value - a.value (its sign) for the categories
\*                                                  index.tsx:241, 245
EntryCompare(a, b, by) ==
    IF by = "name" THEN localeCompare(a.name, b.name)
    ELSE NumSign(NumSub(b.value, a.value))

\* Array.prototype.sort with a consistent comparator: the stable sort.
InsertStable(sorted, e, by) ==
    LET k == Cardinality({i \in 1..Len(sorted) : EntryCompare(sorted[i], e, by) <= 0})
    IN  SubSeq(sorted, 1, k) \o <<e>> \o SubSeq(sorted, k + 1, Len(sorted))

RECURSIVE StableSort(_, _)
StableSort(seq, by) ==
    IF seq = <<>> THEN <<>>
    ELSE InsertStable(StableSort(SubSeq(seq, 1, Len(seq) - 1), by),
                      seq[Len(seq)], by)

\* .slice(0, 10)                                    index.tsx:246
TopN == 10

Slice(seq, n) == SubSeq(seq, 1, IF Len(seq) < n THEN Len(seq) ELSE n)

\* chartData.time                                   index.tsx:239-241
TimeSeries(rows) ==
    StableSort(ObjectEntries(GroupLoop(EmptyMap, rows, "date")), "name")

\* Mutant of CategoryRanking: the sorted entries are not sliced.
CategoryRankingUnsliced(rows) ==
    StableSort(ObjectEntries(GroupLoop(EmptyMap, rows, "category_name")), "value")

\* chartData.categories                             index.tsx:243-246
CategoryRanking(rows) ==
    Slice(StableSort(ObjectEntries(GroupLoop(EmptyMap, rows, "category_name")),
                     "value"),
          TopN)

ChartData(rows) == [time |-> TimeSeries(rows), categories |-> CategoryRanking(rows)]

chartData == ChartData(filteredData)

(***************************************************************************)
(* Persistence: the localStorage item 'cached_report_rows'                 *)
(* localStorage is <<>> when the item is absent (getItem returns null) and *)
(* <<text>> when it is present.  The rows hold only strings and finite     *)
(* numbers, which JSON.stringify writes and JSON.parse reads back as they  *)
(* were; the text is modelled by the rows it encodes.                      *)
(***************************************************************************)
JSONstringify(rows) == [text |-> rows]
JSONparse(item) == item.text

getItem(store) == store
setItem(rows) == <<JSONstringify(rows)>>
removeItem == <<>>

\* error: <<>> is null, <<m>> the message m.
NoError == <<>>
MsgNoData == "Net dannyh ot vebhuka"
MsgStatus == "Oshibka: status"
MsgFetch == "Failed to fetch"

\* Array.isArray(result) ? result : (result.rows || [])   index.tsx:132
\* A payload is [isArray, hasRows, rows].
RawRowsOf(result) ==
    IF result.isArray THEN result.rows
    ELSE IF result.hasRows THEN result.rows ELSE <<>>

(***************************************************************************)
(* Bounds and inputs                                                       *)
(***************************************************************************)
\* Longest payload (number of raw rows) a fetch delivers.
MaxRows == 3

\* All sequences over S of length 1..n.
SeqsUpTo(S, n) == UNION {[1..k -> S] : k \in 1..n}

Str_a == <<"a">>
Str_b == <<"b">>

\* The raw rows the app specification fetches.
LifeRows ==
    { [date |-> StrV(<<"2", "0", "2", "5", "-", "0", "7", "-", "0", "1">>),
       store_name |-> StrV(Str_a), category_name |-> StrV(Str_a),
       revenue_rub |-> NumV(Num(2)), checks |-> NumV(Num(1)),
       pieces |-> NumV(Num(3)), month |-> NumV(Num(7))],
      [json |-> ObjV([store_name |-> StrV(Str_b), category_name |-> StrV(Str_b),
                      revenue_rub |-> NumV(Num(5)), checks |-> NumV(Num(2)),
                      month |-> NumV(Num(8))])] }

\* What response.json() can resolve to: an array of rows, an object with a
\* rows array, or an object without one.
LifePayloads ==
    {[isArray |-> TRUE, hasRows |-> FALSE, rows |-> r] :
        r \in SeqsUpTo(LifeRows, MaxRows) \cup {<<>>}}
    \cup {[isArray |-> FALSE, hasRows |-> TRUE, rows |-> r] :
        r \in SeqsUpTo(LifeRows, 1) \cup {<<>>}}
    \cup {[isArray |-> FALSE, hasRows |-> FALSE, rows |-> <<>>]}

(***************************************************************************)
(* The App component: mount, loadData, handleClear  index.tsx:105-154, 267 *)
(***************************************************************************)
DefaultPivotRow == "category_name"
DefaultPivotCol == "month"
DefaultPivotVal == "sum_revenue"

\* The component state of the first render, but for the dataset
\*                                                  index.tsx:107-120
InitialState ==
    /\ loading = FALSE
    /\ error = NoError
    /\ filters = EmptyFilters
    /\ pivotRow = DefaultPivotRow
    /\ pivotCol = DefaultPivotCol
    /\ pivotVal = DefaultPivotVal
    /\ lastOp = "init"

\* The browser may hold the snapshot of an earlier session.
Init ==
    /\ InitialState
    /\ data = <<>>
    /\ rawInput = <<>>
    /\ pc = "mount"
    /\ localStorage \in
          {<<>>} \cup {setItem(normalizeData(r)) : r \in SeqsUpTo(LifeRows, 1)}

ViewsUnchanged == UNCHANGED <<filters, pivotRow, pivotCol, pivotVal>>

\* Mutant of LoadStart: the previous error is kept.
LoadStartKeepingError(op) ==
    /\ loading' = TRUE
    /\ pc' = "fetching"
    /\ lastOp' = op
    /\ UNCHANGED <<data, localStorage, rawInput, error>>
    /\ ViewsUnchanged

\* loadData up to its await                         index.tsx:124-128
LoadStart(op) ==
    /\ loading' = TRUE
    /\ error' = NoError
    /\ pc' = "fetching"
    /\ lastOp' = op
    /\ UNCHANGED <<data, localStorage, rawInput>>
    /\ ViewsUnchanged

\* useEffect(..., [])                               index.tsx:147-154
Mount ==
    /\ pc = "mount"
    /\ LET cached == getItem(localStorage)
       IN  IF cached # <<>>
           THEN /\ data' = JSONparse(cached[1])
                /\ pc' = "idle"
                /\ lastOp' = "mount"
                /\ UNCHANGED <<loading, error, localStorage, rawInput>>
                /\ ViewsUnchanged
           ELSE LoadStart("mountLoad")

\* A click on one of the two load buttons: the refresh button is disabled
\* while loading (index.tsx:361-362), the other one is rendered only when
\* there is no data and no load (index.tsx:381, 390).
LoadData ==
    /\ pc = "idle"
    /\ ~loading
    /\ LoadStart("loadData")

\* The try block ran to its end                     index.tsx:129-137, 143
LoadSucceeded(result) ==
    /\ pc = "fetching"
    /\ RawRowsOf(result) # <<>>
    /\ LET normalized == normalizeData(RawRowsOf(result))
       IN  /\ data' = normalized
           /\ localStorage' = setItem(normalized)
    /\ rawInput' = RawRowsOf(result)
    /\ loading' = FALSE
    /\ pc' = "idle"
    /\ lastOp' = "loadSucceeded"
    /\ UNCHANGED error
    /\ ViewsUnchanged

\* Mutant of LoadFailed: the catch block empties the dataset.
LoadFailedClearing(message, op) ==
    /\ pc = "fetching"
    /\ error' = <<message>>
    /\ data' = <<>>
    /\ loading' = FALSE
    /\ pc' = "idle"
    /\ lastOp' = op
    /\ UNCHANGED <<localStorage, rawInput>>
    /\ ViewsUnchanged

\* catch and finally                                index.tsx:138-144
LoadFailed(message, op) ==
    /\ pc = "fetching"
    /\ error' = <<message>>
    /\ LET cached == getItem(localStorage)
       IN  IF cached # <<>> THEN data' = JSONparse(cached[1]) ELSE UNCHANGED data
    /\ loading' = FALSE
    /\ pc' = "idle"
    /\ lastOp' = op
    /\ UNCHANGED <<localStorage, rawInput>>
    /\ ViewsUnchanged

\* fetch rejects                                    index.tsx:128
FetchThrows == LoadFailed(MsgFetch, "fetchThrows")

\* !response.ok                                     index.tsx:129
StatusNotOk == LoadFailed(MsgStatus, "statusNotOk")

\* !rawRows.length                                  index.tsx:132-133
NoRows(result) ==
    /\ RawRowsOf(result) = <<>>
    /\ LoadFailed(MsgNoData, "noRows")

\* Mutant of handleClear: the snapshot is left in the store.
handleClearKeepingSnapshot ==
    /\ pc # "mount"
    /\ (Len(data) # 0 \/ loading)
    /\ data' = <<>>
    /\ lastOp' = "handleClear"
    /\ UNCHANGED <<loading, error, pc, rawInput, localStorage>>
    /\ ViewsUnchanged

\* The clear button is part of the dashboard, which is rendered unless there
\* is no data and no load                           index.tsx:267-270, 381, 408
handleClear ==
    /\ pc # "mount"
    /\ (Len(data) # 0 \/ loading)
    /\ data' = <<>>
    /\ localStorage' = removeItem
    /\ lastOp' = "handleClear"
    /\ UNCHANGED <<loading, error, pc, rawInput>>
    /\ ViewsUnchanged

\* The close button of the error banner             index.tsx:374-378
DismissError ==
    /\ error # NoError
    /\ error' = NoError
    /\ lastOp' = "dismissError"
    /\ UNCHANGED <<data, loading, localStorage, pc, rawInput>>
    /\ ViewsUnchanged

Next ==
    \/ Mount
    \/ LoadData
    \/ \E result \in LifePayloads : LoadSucceeded(result)
    \/ FetchThrows
    \/ StatusNotOk
    \/ \E result \in LifePayloads : NoRows(result)
    \/ handleClear
    \/ DismissError

Spec == Init /\ [][Next]_vars

\* The fetch of a started load settles: the promise of index.tsx:128 is
\* fulfilled or rejected, and loadData runs to its end.
Settle ==
    \/ FetchThrows
    \/ StatusNotOk
    \/ \E result \in LifePayloads : NoRows(result)
    \/ \E result \in LifePayloads : LoadSucceeded(result)

\* The app, with every fetch settling eventually.
SpecLive == Init /\ [][Next]_vars /\ WF_vars(Settle)

FailOps == {"fetchThrows", "statusNotOk", "noRows"}

(***************************************************************************)
(* The filter handlers                              index.tsx:287-359      *)
(***************************************************************************)
Date_0701 == <<"2", "0", "2", "5", "-", "0", "7", "-", "0", "1">>
Date_0731 == <<"2", "0", "2", "5", "-", "0", "7", "-", "3", "1">>
Date_0815 == <<"2", "0", "2", "5", "-", "0", "8", "-", "1", "5">>

\* The raw rows of the filter specification.
FilterRowsIn ==
    { [date |-> StrV(Date_0701), store_name |-> StrV(Str_a),
       category_name |-> StrV(Str_a), unit_type |-> StrV(Str_kg),
       revenue_rub |-> NumV(Num(1))],
      [date |-> StrV(Date_0731), store_name |-> StrV(Str_b),
       category_name |-> StrV(Str_a), revenue_rub |-> NumV(Num(2))],
      [date |-> StrV(Date_0815), store_name |-> StrV(Str_a),
       category_name |-> StrV(Str_b), unit_type |-> StrV(Str_kg),
       revenue_rub |-> NumV(Num(3))] }

\* The values typed into the two date inputs.
DateInputs == {<<>>, Date_0731}
\* The month buttons pressed (the source offers 7..12).
PresetMonths == {7}

\* String(m).padStart(2, '0')
PadMonth(m) == IF m < 10 THEN <<"0">> \o NatToString(m) ELSE NatToString(m)

\* `2025-${...}-01` and `2025-${...}-31`            index.tsx:304
PresetFrom(m) == <<"2", "0", "2", "5", "-">> \o PadMonth(m) \o <<"-", "0", "1">>
PresetTo(m) == <<"2", "0", "2", "5", "-">> \o PadMonth(m) \o <<"-", "3", "1">>

\* uniqueStores, uniqueCats                         index.tsx:251-252
uniqueStores == SortStrings({data[i].store_name : i \in 1..Len(data)})
uniqueCats == SortStrings({data[i].category_name : i \in 1..Len(data)})

\* checked ? [...list, x] : list.filter(y => y !== x), where the box is
\* checked before the click iff list.includes(x)    index.tsx:320-323
Toggle(list, x) ==
    IF ArrayIncludes(list, x) THEN SelectSeq(list, LAMBDA y : y # x)
    ELSE Append(list, x)

FilterFrame ==
    UNCHANGED <<data, loading, error, pivotRow, pivotCol, pivotVal,
                localStorage, pc, rawInput, lastOp>>

SetDateFrom(v) ==
    /\ filters' = [filters EXCEPT !.dateFrom = v]
    /\ FilterFrame

SetDateTo(v) ==
    /\ filters' = [filters EXCEPT !.dateTo = v]
    /\ FilterFrame

MonthPreset(m) ==
    /\ filters' = [filters EXCEPT !.dateFrom = PresetFrom(m), !.dateTo = PresetTo(m)]
    /\ FilterFrame

ToggleStore(x) ==
    /\ filters' = [filters EXCEPT !.stores = Toggle(filters.stores, x)]
    /\ FilterFrame

ToggleCategory(x) ==
    /\ filters' = [filters EXCEPT !.categories = Toggle(filters.categories, x)]
    /\ FilterFrame

ResetFilters ==
    /\ filters' = EmptyFilters
    /\ FilterFrame

\* The dashboard after a first successful load of the raw rows r.
Loaded(r) ==
    /\ loading = FALSE
    /\ error = NoError
    /\ filters = EmptyFilters
    /\ pivotRow = DefaultPivotRow
    /\ pivotCol = DefaultPivotCol
    /\ pivotVal = DefaultPivotVal
    /\ pc = "idle"
    /\ rawInput = r
    /\ data = normalizeData(r)
    /\ localStorage = setItem(normalizeData(r))
    /\ lastOp = "loadSucceeded"

InitFilter == \E r \in SeqsUpTo(FilterRowsIn, MaxRows) : Loaded(r)

NextFilter ==
    \/ \E v \in DateInputs : SetDateFrom(v)
    \/ \E v \in DateInputs : SetDateTo(v)
    \/ \E m \in PresetMonths : MonthPreset(m)
    \/ \E x \in Range(uniqueStores) : ToggleStore(x)
    \/ \E x \in Range(uniqueCats) : ToggleCategory(x)
    \/ ResetFilters

SpecFilter == InitFilter /\ [][NextFilter]_vars

(***************************************************************************)
(* The pivot selects                                index.tsx:483-520      *)
(***************************************************************************)
\* The raw rows of the views specification: store names that mix numeric
\* and other keys (two of them the same number), a row without checks and
\* a row with negative checks.
ViewRow(store, cat, month, quarter, rev, chk, pcs, wgt) ==
    [store_name |-> StrV(store), category_name |-> StrV(cat),
     month |-> NumV(Num(month)), quarter |-> NumV(Num(quarter)),
     revenue_rub |-> NumV(Num(rev)), checks |-> NumV(Num(chk)),
     pieces |-> NumV(Num(pcs)), weight_kg |-> NumV(Num(wgt))]

ViewRowsIn ==
    { ViewRow(<<"9">>, Str_a, 1, 1, 2, 1, 3, 1) @@ [unit_type |-> StrV(Str_kg)],
      ViewRow(<<"1", "0">>, Str_a, 2, 1, 2, 2, 1, 0),
      ViewRow(Str_a, Str_b, 1, 1, 5, 0, 2, 2),
      ViewRow(Str_b, Str_a, 10, 4, 3, -1, 1, 1),
      ViewRow(<<"0", "9">>, Str_b, 2, 1, 1, 3, 0, 0) @@ [year |-> NumV(Num(2024))] }

SelectFrame ==
    UNCHANGED <<data, loading, error, filters, localStorage, pc, rawInput, lastOp>>

SetPivotRow(v) ==
    /\ pivotRow' = v
    /\ SelectFrame
    /\ UNCHANGED <<pivotCol, pivotVal>>

SetPivotCol(v) ==
    /\ pivotCol' = v
    /\ SelectFrame
    /\ UNCHANGED <<pivotRow, pivotVal>>

SetPivotVal(v) ==
    /\ pivotVal' = v
    /\ SelectFrame
    /\ UNCHANGED <<pivotRow, pivotCol>>

InitViews == \E r \in SeqsUpTo(ViewRowsIn, MaxRows) : Loaded(r)

NextViews ==
    \/ \E v \in RowDims : SetPivotRow(v)
    \/ \E v \in ColDims : SetPivotCol(v)
    \/ \E v \in Measures : SetPivotVal(v)

SpecViews == InitViews /\ [][NextViews]_vars

(***************************************************************************)
(* The date inputs over a dataset of many categories                       *)
(***************************************************************************)
\* The number of distinct categories of the chart dataset.
ChartCats == 11

\* Category k: an array index name when k is odd, another name when even.
ChartCategory(k) == IF k % 2 = 1 THEN NatToString(k) ELSE <<"c">> \o NatToString(k)

ChartDate(k) == <<"2", "0", "2", "5", "-", "0", "7", "-">> \o PadMonth(k)

\* Row k of the chart dataset: one row a day, one category a row, but for
\* the last row, which is of the first category again; revenues repeat.
ChartRow(k) ==
    [date |-> StrV(ChartDate(k)),
     category_name |-> StrV(ChartCategory(IF k > ChartCats THEN 1 ELSE k)),
     store_name |-> StrV(Str_a),
     revenue_rub |-> NumV(Num((k % 3) + 1)),
     checks |-> NumV(Num(1))]

\* The chart dataset in the order of its dates and in the opposite order.
ChartRowsIn ==
    { [k \in 1..(ChartCats + 1) |-> ChartRow(k)],
      [k \in 1..(ChartCats + 1) |-> ChartRow(ChartCats + 2 - k)] }

ChartDateInputs == {<<>>} \cup {ChartDate(k) : k \in 1..(ChartCats + 1)}

InitCharts == \E r \in ChartRowsIn : Loaded(r)

NextCharts ==
    \/ \E v \in ChartDateInputs : SetDateFrom(v)
    \/ \E v \in ChartDateInputs : SetDateTo(v)

SpecCharts == InitCharts /\ [][NextCharts]_vars

(***************************************************************************)
(* normalizeData on single raw rows                                        *)
(***************************************************************************)
\* Largest absolute value of a raw measure.
MaxMeasure == 2

\* The rows with the property k absent or holding one of the values vs.
Opt(k, vs) == {EmptyRow} \cup {(k :> v) : v \in vs}

UnitTypeVals ==
    {StrV(Str_kg), StrV(<<"K", "G">>), StrV(Str_pcs), StrV(<<"cy_K", "cy_G">>),
     StrV(<<>>), Null}
UnitRawVals ==
    {StrV(<<"0", ".", "5", " ", "cy_k", "cy_g">>),
     StrV(<<"1", "0", " ", "cy_sh", "cy_t">>),
     StrV(<<"5", " ", "k", "g">>),
     StrV(<<"1", "cy_K", "cy_G">>)}
UnitRows ==
    {a @@ b @@ c :
        a \in Opt("unit_type", UnitTypeVals),
        b \in Opt("unit_raw", UnitRawVals),
        c \in Opt(K_unit, {StrV(<<"2", " ", "cy_k", "cy_g">>),
                           StrV(<<"3", " ", "K", "G">>)})}

StoreVals ==
    {StrV(Str_a), StrV(<<" ", "\n">>), StrV(<<>>), Null,
     StrV(<<" ", "a", "\n", "b", " ">>), NumV(Num(5)), NumV(Zero)}
StoreRows ==
    {a @@ b @@ c @@ d :
        a \in Opt("store_name", StoreVals),
        b \in Opt(K_store, {StrV(Str_b), StrV(<<"\n">>)}),
        c \in Opt("category_name", {StrV(Str_a), StrV(<<"\r", "\n">>), Null}),
        d \in Opt(K_category, {StrV(Str_b)})}

MeasureVals == {NumV(Num(i)) : i \in (-MaxMeasure)..MaxMeasure}
MeasureRows ==
    {[revenue_rub |-> r, checks |-> c, pieces |-> q, weight_kg |-> w] :
        r \in MeasureVals, c \in MeasureVals, q \in MeasureVals, w \in MeasureVals}

\* The property names of one logical field, in the order of its alias chain
\* (machine key, human-readable key, third alias), and two values for it.
NumberVals == <<NumV(Num(3)), StrV(<<"1", " ", "2", "3", "4", ",", "5", "0">>)>>
StringVals == <<StrV(Str_a), StrV(Str_b)>>
AliasChains ==
    { [keys |-> <<"revenue_rub", K_revenue, "revenue_rub_raw">>, vals |-> NumberVals],
      [keys |-> <<"checks", K_checks>>, vals |-> NumberVals],
      [keys |-> <<"pieces", K_pieces, "peaces">>, vals |-> NumberVals],
      [keys |-> <<"weight_kg", K_weight>>, vals |-> NumberVals],
      [keys |-> <<"date", K_date>>, vals |-> StringVals],
      [keys |-> <<"store_name", K_store>>, vals |-> StringVals],
      [keys |-> <<"category_name", K_category>>, vals |-> StringVals],
      [keys |-> <<"unit_raw", K_unit>>, vals |-> StringVals],
      [keys |-> <<"week", K_week>>, vals |-> NumberVals],
      [keys |-> <<"month", K_month>>, vals |-> NumberVals],
      [keys |-> <<"quarter", K_quarter>>, vals |-> NumberVals],
      [keys |-> <<"year", K_year>>, vals |-> NumberVals] }

\* A field under one of its names, under two of them with different values,
\* and under two of them with an unusable (zero or empty) first value.
AliasRows ==
    UNION {
        {(ch.keys[i] :> ch.vals[1]) : i \in 1..Len(ch.keys)}
        \cup {(ch.keys[i] :> ch.vals[1]) @@ (ch.keys[j] :> ch.vals[2]) :
                 i \in 1..Len(ch.keys), j \in 1..Len(ch.keys)}
        \cup {(ch.keys[1] :> v) @@ (ch.keys[2] :> ch.vals[2]) :
                 v \in {NumV(Zero), StrV(<<>>), Null}}
        : ch \in AliasChains}

\* Locale-formatted numbers: an optional minus sign, the digits 1 or 12,
\* optionally followed by the group 234 after a group separator (none, a
\* space, a comma or a point), optionally a decimal mark (comma or point,
\* not the group separator) with the fraction digits 5 or 50, and a
\* currency or unit symbol before or after.  A comma or point group
\* separator comes with a decimal part, so that the text denotes one number.
RubSign == <<"rub">>
LocaleNumbers ==
    {x \in [neg : BOOLEAN, head : {<<"1">>, <<"1", "2">>}, grouped : BOOLEAN,
            sep : {<<>>, <<" ">>, <<",">>, <<".">>},
            mark : {<<>>, <<",">>, <<".">>},
            frac : {<<"5">>, <<"5", "0">>},
            affix : {"none", "rubAfter", "kgAfter", "rubBefore"}] :
        /\ ~x.grouped => x.sep = <<>>
        /\ x.sep \in {<<",">>, <<".">>} => x.mark \notin {<<>>, x.sep}
        /\ x.mark = <<>> => x.frac = <<"5">>}

FormatLocale(x) ==
    (IF x.affix = "rubBefore" THEN RubSign \o <<" ">> ELSE <<>>)
    \o (IF x.neg THEN <<"-">> ELSE <<>>)
    \o x.head
    \o (IF x.grouped THEN x.sep \o <<"2", "3", "4">> ELSE <<>>)
    \o (IF x.mark # <<>> THEN x.mark \o x.frac ELSE <<>>)
    \o (CASE x.affix = "rubAfter" -> <<" ">> \o RubSign
          [] x.affix = "kgAfter" -> Str_cy_kg
          [] OTHER -> <<>>)

\* Rows whose pieces_per_kg, which normalizeData gives to parseNum as it is
\* (index.tsx:72), is a formatted number, a value without a number, or a
\* number.
ParseVals ==
    {StrV(FormatLocale(x)) : x \in LocaleNumbers}
    \cup {Null, StrV(<<>>), StrV(<<"emdash">>)}
    \cup MeasureVals \cup {NumV(Frac(1, 2))}
ParseRows == {[pieces_per_kg |-> v] : v \in ParseVals}

PlainRows == UnitRows \cup StoreRows \cup MeasureRows \cup AliasRows \cup ParseRows

\* Every row also in the { json: row } wrapper       index.tsx:46-47
NormRows == PlainRows \cup {[json |-> ObjV(r)] : r \in AliasRows \cup UnitRows}

InitNorm ==
    /\ InitialState
    /\ pc = "idle"
    /\ localStorage = <<>>
    /\ data = <<>>
    /\ \E row \in NormRows : rawInput = <<row>>

Normalize ==
    /\ lastOp = "init"
    /\ data' = normalizeData(rawInput)
    /\ lastOp' = "normalizeData"
    /\ UNCHANGED <<loading, error, filters, pivotRow, pivotCol, pivotVal,
                   localStorage, pc, rawInput>>

NextNorm == Normalize

SpecNorm == InitNorm /\ [][NextNorm]_vars

(***************************************************************************)
(* Properties                                                              *)
(***************************************************************************)
\* The sum of one field over a sequence of rows.
FieldSum(rows, field) == SeqSum([i \in 1..Len(rows) |-> rows[i][field]])

\* The rows of a sequence whose dimension dim has the key k.
RowsWithKey(rows, dim, k) == SelectSeq(rows, LAMBDA d : DimString(d, dim) = k)

\* q is the zero-guarded ratio num/den: q * den = num for a positive den,
\* and q = 0 otherwise (the guard of the source is den > 0).
IsGuardedRatio(q, num, den) ==
    IF NumPos(den) THEN NumMul(q, den) = num ELSE q = Zero

\* shown is q rounded to a multiple of 1/unit: |shown - q| <= 1/(2 unit).
IsRounded(shown, q, unit) ==
    /\ NumMul(shown, Num(unit))[2] = 1
    /\ NumLeq(NumMul(NumAbs(NumSub(shown, q)), Num(2 * unit)), Num(1))

NumeratorOf(measure) == IF measure = "calc_atv" THEN "revenue_rub" ELSE "pieces"

\* The sum of all the cells of a pivot row.
CellSum(pt, r) ==
    LET cols == SortStrings(pt.colKeySet)
    IN  SeqSum([i \in 1..Len(cols) |-> pt.matrix[r][cols[i]]])

(* C1: under calc_atv and calc_upt, for every choice of the column         *)
(* dimension and every row key, the row total is the zero-guarded ratio of *)
(* the sums of revenue (resp. pieces) and checks over all the filtered     *)
(* rows of that row key, whatever the columns they fall into; the total    *)
(* shown is that ratio rounded to a whole number.                          *)
C1_RowTotalIsRatioOfRowSums ==
    pivotVal \in RatioMeasures =>
        \A colDim \in ColDims :
            LET pt == PivotTable(filteredData, pivotRow, colDim, pivotVal)
            IN  \A i \in 1..Len(pt.rowKeys) :
                    LET r == pt.rowKeys[i]
                        rs == RowsWithKey(filteredData, pivotRow, r)
                        total == FinalTotal(pt, r, pivotVal)
                    IN  /\ IsGuardedRatio(total,
                                          FieldSum(rs, NumeratorOf(pivotVal)),
                                          FieldSum(rs, "checks"))
                        /\ IsRounded(ShownTotal(pt, r, pivotVal), total, 1)

\* A row whose total differs from the sum and from the mean of its cells'
\* ratios.
C1_Witness ==
    /\ pivotVal = "calc_atv"
    /\ \E i \in 1..Len(pivotTable.rowKeys) :
          LET r == pivotTable.rowKeys[i]
              total == FinalTotal(pivotTable, r, pivotVal)
              n == Cardinality(pivotTable.colKeySet)
          IN  /\ n >= 2
              /\ total # Zero
              /\ total # CellSum(pivotTable, r)
              /\ NumMul(total, Num(n)) # CellSum(pivotTable, r)

MeasureField(measure) ==
    CASE measure = "sum_revenue" -> "rev"
      [] measure = "sum_checks" -> "chk"
      [] measure = "sum_pieces" -> "pcs"
      [] OTHER -> "wgt"

(* C2: under a sum measure the cells of the pivot add up, over all row     *)
(* keys and column keys, to the KPI aggregator's total of the measure's    *)
(* field over the same filtered rows.                                      *)
C2_CellsAddUpToKpiTotal ==
    pivotVal \in SumMeasures =>
        SeqSum([i \in 1..Len(pivotTable.rowKeys) |->
                    CellSum(pivotTable, pivotTable.rowKeys[i])])
            = StatsTotal(filteredData)[MeasureField(pivotVal)]

\* Three rows in two cells of one table row, with a total that is not zero.
C2_Witness ==
    /\ pivotVal = "sum_weight"
    /\ Len(filteredData) = 3
    /\ Len(pivotTable.rowKeys) = 1
    /\ Cardinality(pivotTable.colKeySet) = 2
    /\ StatsTotal(filteredData).wgt # Zero

\* The two rows of the example: revenue 100 with 10 checks, 50 with 5.
ExampleRows ==
    normalizeData(<<[revenue_rub |-> NumV(Num(100)), checks |-> NumV(Num(10))],
                    [revenue_rub |-> NumV(Num(50)), checks |-> NumV(Num(5))]>>)

StrGeq(a, b) == a = b \/ StrLess(b, a)

\* The row d is wanted under the filter specification f.
Wanted(d, f) ==
    /\ f.dateFrom = <<>> \/ StrGeq(d.date, f.dateFrom)
    /\ f.dateTo = <<>> \/ StrGeq(f.dateTo, d.date)
    /\ f.stores = <<>> \/ d.store_name \in Range(f.stores)
    /\ f.categories = <<>> \/ d.category_name \in Range(f.categories)
    /\ f.unitTypes = <<>> \/ d.unit_type \in Range(f.unitTypes)

\* The k-th smallest element of a set of numbers.
KthOf(S, k) == CHOOSE i \in S : Cardinality({j \in S : j < i}) = k - 1

\* The selections of unit types (no control of the page sets them).
UnitTypeChoices == {<<>>, <<Str_kg>>, <<Str_pcs>>, <<Str_pcs, Str_kg>>}

(* C4: for the dataset, the filters in force and every selection of unit   *)
(* types, the filtered rows are exactly the wanted rows of the dataset, in *)
(* the order of the dataset; the empty filter returns the dataset.         *)
C4_FilterKeepsExactlyWanted ==
    /\ \A ut \in UnitTypeChoices :
          LET f == [filters EXCEPT !.unitTypes = ut]
              out == FilterRows(data, f)
              idx == {i \in 1..Len(data) : Wanted(data[i], f)}
          IN  /\ Len(out) = Cardinality(idx)
              /\ \A k \in 1..Len(out) : out[k] = data[KthOf(idx, k)]
    /\ FilterRows(data, EmptyFilters) = data

\* A store filter and an upper date bound that is the date of a kept row,
\* with some rows kept and some dropped.
C4_Witness ==
    /\ filters.stores # <<>>
    /\ filters.dateTo # <<>>
    /\ \E i \in 1..Len(filteredData) : filteredData[i].date = filters.dateTo
    /\ Len(filteredData) < Len(data)

(* C5: after a load that failed (fetch threw, status not OK, no rows) the  *)
(* error message is set and the dataset is the persisted snapshot if there *)
(* is one and empty otherwise.                                             *)
C5_FailedLoadFallsBack ==
    lastOp \in FailOps =>
        /\ error # NoError
        /\ ~loading
        /\ data = IF getItem(localStorage) # <<>>
                  THEN JSONparse(getItem(localStorage)[1]) ELSE <<>>

\* A failed load that fell back to a snapshot.
C5_Witness ==
    /\ lastOp \in FailOps
    /\ getItem(localStorage) # <<>>
    /\ data # <<>>

\* The string a raw value is read as; an absent or null value has none.
ValStr(v) == IF v.t \in {"null", "undefined"} THEN <<>> ELSE ToStr(v)

\* s contains, in any case, the Latin or the Cyrillic kilogram label.
HasKg(s) ==
    \/ includes(toLowerCase(s), Str_kg)
    \/ includes(toLowerCase(s), Str_cy_kg)

(* C6: the normalized unit_type is 'kg' if and only if the explicit        *)
(* unit-type field or the raw unit label contains, in any case, the Latin  *)
(* "kg" or the Cyrillic kilogram label; otherwise it is 'pcs'.             *)
C6_UnitTypeFromEitherLabel ==
    lastOp = "normalizeData" =>
        LET row == Unwrap(rawInput[1])
            explicit == ValStr(Get(row, "unit_type"))
            label == ValStr(Or(Get(row, "unit_raw"), Get(row, K_unit)))
        IN  data[1].unit_type =
                IF HasKg(explicit) \/ HasKg(label) THEN Str_kg ELSE Str_pcs

\* The row with its property from renamed to the name to.
Rename(row, from, to) ==
    [k \in (DOMAIN row \ {from}) \cup {to} |->
        IF k = to THEN row[from] ELSE row[k]]

\* The row without the properties ks.
Without(row, ks) == [k \in DOMAIN row \ ks |-> row[k]]

(* C7: for every logical field, calendar attributes included, a row that   *)
(* carries the field only under its human-readable key normalizes like the *)
(* row that carries it under the machine key, and a usable value under the *)
(* machine key wins over the later aliases.                                *)
C7_AliasChainForEveryField ==
    lastOp = "normalizeData" =>
        \A ch \in AliasChains :
            LET row == Unwrap(rawInput[1])
                machine == ch.keys[1]
                human == ch.keys[2]
            IN  /\ (human \in DOMAIN row /\ machine \notin DOMAIN row) =>
                       data[1] = normalizeRow(Rename(row, human, machine), 0)
                /\ (machine \in DOMAIN row /\ Truthy(row[machine])) =>
                       data[1] = normalizeRow(
                                    Without(row, Range(ch.keys) \ {machine}), 0)

(* C8: the normalized store_name and category_name are never the empty     *)
(* string, whatever the raw store and category values are.                 *)
C8_StoreAndCategoryNeverEmpty ==
    lastOp = "normalizeData" =>
        /\ data[1].store_name # <<>>
        /\ data[1].category_name # <<>>

\* The four derived ratios of a row: <<ratio, numerator, denominator>>.
RatiosOf(d) ==
    { <<d.atv, d.revenue_rub, d.checks>>,
      <<d.upt, d.pieces, d.checks>>,
      <<d.avg_price_per_kg, d.revenue_rub, d.weight_kg>>,
      <<d.avg_price_per_piece, d.revenue_rub, d.pieces>> }

(* C9, as claimed: each derived ratio of a normalized row, negative        *)
(* measures included, is numerator / denominator, and it is 0 in the case  *)
(* that its denominator is 0 (and in that case only is the quotient        *)
(* replaced by 0).                                                         *)
C9_RatioUnlessDenominatorZero ==
    lastOp = "normalizeData" =>
        \A t \in RatiosOf(data[1]) :
            IF t[3] = Zero THEN t[1] = Zero ELSE NumMul(t[1], t[3]) = t[2]

(* C9, amended: each derived ratio of a normalized row is numerator /      *)
(* denominator when its denominator is positive, and 0 when its            *)
(* denominator is zero or negative.                                        *)
C9_RatioWhenDenominatorPositive ==
    lastOp = "normalizeData" =>
        \A t \in RatiosOf(data[1]) : IsGuardedRatio(t[1], t[2], t[3])

\* A normalized row with negative checks and revenue: its atv is 0.
C9_Witness ==
    /\ lastOp = "normalizeData"
    /\ data[1].checks[1] < 0
    /\ data[1].revenue_rub # Zero
    /\ data[1].atv = Zero
    /\ NumPos(data[1].weight_kg)
    /\ data[1].avg_price_per_kg # Zero

(* C10: the column keys are the distinct values of the column dimension,   *)
(* each once, in ascending numeric order when every key is numeric and in  *)
(* ascending lexicographic order as a whole otherwise.                     *)
C10_ColKeysNumericOrLexicographic ==
    \A ks \in ColKeysOutcomes(filteredData, pivotCol) :
        LET S == {DimString(filteredData[i], pivotCol) : i \in 1..Len(filteredData)}
        IN  /\ Range(ks) = S
            /\ Len(ks) = Cardinality(S)
            /\ IF \A k \in S : ~isNaN(Number(k))
               THEN \A i, j \in 1..Len(ks) :
                        i < j => NumLeq(Number(ks[i]), Number(ks[j]))
               ELSE \A i, j \in 1..Len(ks) :
                        i < j => localeCompare(ks[i], ks[j]) < 0


\* The summed revenue_rub of the rows of category c.
CategorySum(rows, c) ==
    FieldSum(SelectSeq(rows, LAMBDA d : d.category_name = c), "revenue_rub")

CategoriesOf(rows) == {rows[i].category_name : i \in 1..Len(rows)}

\* rk lists min(10, number of categories) distinct categories of the rows,
\* each with its summed revenue, and no category left out has a larger sum
\* than a listed one.
IsTopTen(rk, rows) ==
    /\ Len(rk) <= 10
    /\ Len(rk) = (IF Cardinality(CategoriesOf(rows)) < 10
                  THEN Cardinality(CategoriesOf(rows)) ELSE 10)
    /\ \A i \in 1..Len(rk) :
          /\ rk[i].name \in CategoriesOf(rows)
          /\ rk[i].value = CategorySum(rows, rk[i].name)
    /\ \A i, j \in 1..Len(rk) : i # j => rk[i].name # rk[j].name
    /\ \A c \in CategoriesOf(rows) \ {rk[i].name : i \in 1..Len(rk)} :
          \A i \in 1..Len(rk) : NumLeq(CategorySum(rows, c), rk[i].value)

(* C11, as claimed: the category ranking has at most 10 entries, each with *)
(* the summed revenue of its category, they are the 10 categories of the   *)
(* largest sums, and each entry's sum is strictly larger than the next     *)
(* entry's.                                                                *)
C11_RankingStrictlyDescending ==
    LET rk == chartData.categories
    IN  /\ IsTopTen(rk, filteredData)
        /\ \A i \in 1..(Len(rk) - 1) : NumLess(rk[i + 1].value, rk[i].value)

(* C11, amended: the same, but consecutive entries are in descending order *)
(* that is not strict: no entry's sum is smaller than the next entry's.    *)
C11_RankingTopTenDescending ==
    LET rk == chartData.categories
    IN  /\ IsTopTen(rk, filteredData)
        /\ \A i \in 1..(Len(rk) - 1) : NumLeq(rk[i + 1].value, rk[i].value)

\* More than 10 categories are filtered, and the ranking of 10 has a tie.
C11_Witness ==
    /\ Cardinality(CategoriesOf(filteredData)) > 10
    /\ Len(chartData.categories) = 10
    /\ \E i \in 1..9 : chartData.categories[i].value = chartData.categories[i + 1].value


\* The rows in the order p, a permutation of their indices.
Permuted(rows, p) == [i \in 1..Len(rows) |-> rows[p[i]]]

\* What the dashboard computes from the dataset rows under the filters and
\* pivot settings of the state.
AnalyticsOf(rows) ==
    LET fd == FilterRows(rows, filters)
        pt == PivotTable(fd, pivotRow, pivotCol, pivotVal)
    IN  [stats |-> Stats(fd),
         rowKeys |-> pt.rowKeys,
         colKeys |-> ColKeysOutcomes(fd, pivotCol),
         matrix |-> pt.matrix,
         matrixAux |-> pt.matrixAux,
         time |-> TimeSeries(fd),
         categories |-> CategoryRanking(fd)]

(* C12: for every permutation of the dataset's rows the KPI totals, the    *)
(* pivot output (row keys, column keys, matrix, auxiliary matrix), the     *)
(* time series and the category ranking are the same as for the dataset.   *)
C12_AnalyticsIgnoreRowOrder ==
    \A p \in Perms(1..Len(data)) : AnalyticsOf(Permuted(data, p)) = AnalyticsOf(data)


\* The number a locale-formatted text denotes.
Denoted(x) ==
    LET int == DigitsValue(x.head, 1, Len(x.head)) * (IF x.grouped THEN 1000 ELSE 1)
               + (IF x.grouped THEN 234 ELSE 0)
        mag == IF x.mark # <<>> THEN Frac(2 * int + 1, 2) ELSE Num(int)
    IN  IF x.neg THEN <<-mag[1], mag[2]>> ELSE mag

(* C13: parseNum gives a locale-formatted numeric string (digits with      *)
(* white space or another thousands separator, a decimal comma or point,   *)
(* currency or unit symbols around it) the number it denotes, gives null,  *)
(* the empty string and a string without a number 0, and gives a number    *)
(* back unchanged.                                                         *)
C13_ParseNumReadsLocaleNumbers ==
    (lastOp = "normalizeData" /\ rawInput[1] \in ParseRows) =>
        LET v == rawInput[1].pieces_per_kg
            got == data[1].pieces_per_kg
        IN  /\ \A x \in LocaleNumbers :
                  v = StrV(FormatLocale(x)) => got = Denoted(x)
            /\ v \in {Null, StrV(<<>>), StrV(<<"emdash">>)} => got = Zero
            /\ v.t = "number" => got = v.n


\* The rows of a sequence that fall into the cell (r, c).
CellRows(rows, r, c) ==
    SelectSeq(rows, LAMBDA d : DimString(d, pivotRow) = r /\ DimString(d, pivotCol) = c)

\* The cells of the pivot pt are right for the rows it was built from.
CellsRight(pt, rows) ==
    \A r \in Range(pt.rowKeys), c \in pt.colKeySet :
        LET m == CellRows(rows, r, c)
            aux == pt.matrixAux[r][c]
        IN  /\ aux.rev = FieldSum(m, "revenue_rub")
            /\ aux.chk = FieldSum(m, "checks")
            /\ aux.pcs = FieldSum(m, "pieces")
            /\ pivotVal = "calc_atv" =>
                  pt.matrix[r][c] = (IF NumPos(aux.chk) THEN NumDiv(aux.rev, aux.chk)
                                     ELSE Zero)
            /\ pivotVal = "calc_upt" =>
                  pt.matrix[r][c] = (IF NumPos(aux.chk) THEN NumDiv(aux.pcs, aux.chk)
                                     ELSE Zero)
            /\ m = <<>> => (pt.matrix[r][c] = Zero /\ aux = ZeroAux)

(* C14: whatever the order in which the pivot processes the filtered rows  *)
(* and whatever the measure, every cell's auxiliary accumulators are the   *)
(* sums of revenue_rub, checks and pieces of the rows of that cell; under  *)
(* calc_atv and calc_upt the cell is the ratio of those sums, 0 when the   *)
(* checks are not positive; a cell without rows is 0 with zero sums.       *)
(* The datasets of the specification are the row sequences in every order, *)
(* so that every state stands for one order of processing.                 *)
C14_CellsHoldSumsAndRatios == CellsRight(pivotTable, filteredData)

\* Under calc_atv there are a cell of two rows whose own ratios differ from
\* the cell's, a cell without rows and a cell whose checks are not positive
\* although it has revenue.
C14_Witness ==
    /\ pivotVal = "calc_atv"
    /\ \E r \in Range(pivotTable.rowKeys), c \in pivotTable.colKeySet :
          LET m == CellRows(filteredData, r, c)
          IN  /\ Len(m) = 2
              /\ m[1].atv # pivotTable.matrix[r][c]
              /\ m[2].atv # pivotTable.matrix[r][c]
    /\ \E r \in Range(pivotTable.rowKeys), c \in pivotTable.colKeySet :
          CellRows(filteredData, r, c) = <<>>
    /\ \E r \in Range(pivotTable.rowKeys), c \in pivotTable.colKeySet :
          /\ ~NumPos(pivotTable.matrixAux[r][c].chk)
          /\ pivotTable.matrixAux[r][c].rev # Zero


(* C15: once the mount effect has run, in every state the loads and clears *)
(* can reach, the dataset is the persisted snapshot if there is one and is *)
(* empty if there is none.                                                 *)
C15_DatasetAgreesWithSnapshot ==
    pc # "mount" =>
        data = IF getItem(localStorage) # <<>>
               THEN JSONparse(getItem(localStorage)[1]) ELSE <<>>

\* A clear issued while a load is in flight, over a stored snapshot.
C15_Witness ==
    /\ pc = "fetching"
    /\ loading
    /\ lastOp = "handleClear"
    /\ getItem(localStorage) = <<>>
    /\ data = <<>>


(* C16: a step that starts a load sets loading and clears the error; a     *)
(* load in flight keeps both so; if the fetch settles, loading becomes     *)
(* false again; and when the load has completed, loading is false and the  *)
(* error message is set if and only if the load failed.                    *)
C16_StartedLoadSettles ==
    /\ [][(pc # "fetching" /\ pc' = "fetching") =>
             (loading' /\ error' = NoError)]_vars
    /\ [](pc = "fetching" => (loading /\ error = NoError))
    /\ [](lastOp \in FailOps => (~loading /\ error # NoError))
    /\ [](lastOp = "loadSucceeded" => (~loading /\ error = NoError))
    /\ (loading ~> ~loading)

\* A load started by the refresh button while an error was shown.
C16_Witness ==
    /\ pc = "fetching"
    /\ lastOp = "loadData"
    /\ loading
    /\ error = NoError
    /\ data # <<>>

=============================================================================
